---- MODULE Spec2Model ----
(***************************************************************************)
(* Model of the k6 load-test script of this repository, in its two         *)
(* variants: src/unnamed/part_000 and src/fulle2etest.js.                  *)
(*                                                                         *)
(* Two parts are modelled:                                                 *)
(*   - the init-context code (module top level): DURATION is parsed by     *)
(*     resolveDurationSeconds and the ramp stages are derived from it;     *)
(*   - one virtual user: setup() once, then iterations of the default      *)
(*     function, each a blocking sequence of HTTP calls with checks.       *)
(*                                                                         *)
(* JavaScript values are modelled as follows.  A number is a record        *)
(* [num, den] standing for num/den (den = 0 stands for NaN).  A string of  *)
(* the environment is a sequence of one-character strings.  undefined and  *)
(* null are the model values UNDEFINED and NULL.                           *)
(***************************************************************************)
EXTENDS Integers, Sequences, FiniteSets, TLC

\* ------------------------------------------------------------------------
\* Bounds
\* ------------------------------------------------------------------------
MaxLen == 3
MaxIterations == 2

\* ------------------------------------------------------------------------
\* Strings of the environment
\* ------------------------------------------------------------------------
Digits == {"0", "1", "2", "3", "4", "5", "6", "7", "8", "9"}

Alphabet == {"0", "1", "2", "5", "6", "9", "s", "m", "h", "M", "d", "a", "b", "c", "-", ".", " "}

EnvStrings == UNION {[1..n -> Alphabet] : n \in 0..MaxLen}

DigitVal(c) ==
    CASE c = "0" -> 0 [] c = "1" -> 1 [] c = "2" -> 2 [] c = "3" -> 3
      [] c = "4" -> 4 [] c = "5" -> 5 [] c = "6" -> 6 [] c = "7" -> 7
      [] c = "8" -> 8 [] c = "9" -> 9

AllDigits(s) == \A i \in 1..Len(s) : s[i] \in Digits

RECURSIVE Pow(_, _)
Pow(b, e) == IF e = 0 THEN 1 ELSE b * Pow(b, e - 1)

\* value of a sequence of digits read in base b (0 for the empty sequence)
RECURSIVE DigitsValue(_, _)
DigitsValue(s, b) ==
    IF Len(s) = 0 THEN 0
    ELSE DigitsValue(SubSeq(s, 1, Len(s) - 1), b) * b + DigitVal(s[Len(s)])

\* String.prototype.trim
RECURSIVE trim(_)
trim(s) ==
    IF Len(s) = 0 THEN s
    ELSE IF s[1] = " " THEN trim(Tail(s))
    ELSE IF s[Len(s)] = " " THEN trim(SubSeq(s, 1, Len(s) - 1))
    ELSE s

\* String.prototype.toLowerCase on one character
toLowerCase(c) == IF c = "M" THEN "m" ELSE c

\* ------------------------------------------------------------------------
\* JavaScript numbers
\* ------------------------------------------------------------------------
NaN == [num |-> 0, den |-> 0]

Int2Num(n) == [num |-> n, den |-> 1]

\* ToBoolean of a number: false for NaN, +0 and -0
NumTruthy(v) == v.den # 0 /\ v.num # 0

\* position of the first "." of s, 0 when there is none
DotPos(s) ==
    IF \E i \in 1..Len(s) : s[i] = "."
    THEN CHOOSE i \in 1..Len(s) : s[i] = "." /\ \A j \in 1..(i - 1) : s[j] # "."
    ELSE 0

\* an unsigned StrDecimalLiteral: D+ | D+ "." D* | "." D+
UnsignedDecimal(s) ==
    LET p == DotPos(s)
        ip == IF p = 0 THEN s ELSE SubSeq(s, 1, p - 1)
        fp == IF p = 0 THEN <<>> ELSE SubSeq(s, p + 1, Len(s))
    IN  IF AllDigits(ip) /\ AllDigits(fp) /\ Len(ip) + Len(fp) > 0
        THEN [num |-> DigitsValue(ip \o fp, 10), den |-> Pow(10, Len(fp))]
        ELSE NaN

\* Number(string): StringToNumber of ECMAScript
Number(str) ==
    LET s == trim(str)
    IN  IF Len(s) = 0 THEN Int2Num(0)
        ELSE IF Len(s) >= 3 /\ s[1] = "0" /\ s[2] = "b"
                  /\ \A i \in 3..Len(s) : s[i] \in {"0", "1"}
        THEN Int2Num(DigitsValue(SubSeq(s, 3, Len(s)), 2))
        ELSE IF s[1] = "-"
        THEN LET u == UnsignedDecimal(Tail(s))
             IN  [num |-> 0 - u.num, den |-> u.den]
        ELSE UnsignedDecimal(s)

\* raw.match(/^(\d+)([smh]?)$/i): <<>> when there is no match, else the
\* two groups
Match(raw) ==
    LET n == Len(raw)
    IN  IF n >= 1 /\ AllDigits(raw) THEN <<raw, <<>> >>
        ELSE IF n >= 2 /\ toLowerCase(raw[n]) \in {"s", "m", "h"}
                  /\ AllDigits(SubSeq(raw, 1, n - 1))
        THEN <<SubSeq(raw, 1, n - 1), <<raw[n]>> >>
        ELSE <<>>

resolveDurationSeconds(value) ==
    LET raw == trim(value)
        match == Match(raw)
    IN  IF match = <<>>
        THEN IF NumTruthy(Number(raw)) THEN Number(raw) ELSE Int2Num(60)
        ELSE LET amount == DigitsValue(match[1], 10)
                 unit == IF match[2] = <<>> THEN "" ELSE toLowerCase(match[2][1])
             IN  IF unit = "m" THEN Int2Num(amount * 60)
                 ELSE IF unit = "h" THEN Int2Num(amount * 3600)
                 ELSE Int2Num(amount)

\* __ENV.DURATION || '1m' (an unset variable and '' are both falsy)
DurationSetting(env) == IF env = <<>> THEN <<"1", "m">> ELSE env

\* Math.round(x / 10) for x = num/den: the integer nearest to x/10, a half
\* going up
MathRoundTenthDown(x) == x.num \div (10 * x.den)

MathRoundTenth(x) == (2 * x.num + 10 * x.den) \div (20 * x.den)

MathMax(a, b) == IF a >= b THEN a ELSE b

RampSeconds(d) == MathMax(1, MathRoundTenth(d))

Stages(ramp, d) ==
    << [duration |-> Int2Num(ramp), target |-> "virtualUsers"],
       [duration |-> d, target |-> "virtualUsers"],
       [duration |-> Int2Num(ramp), target |-> "0"] >>

\* ------------------------------------------------------------------------
\* HTTP responses and JavaScript values of the journey
\* ------------------------------------------------------------------------
Scripts == {"part_000", "fulle2etest"}

Statuses == {200, 201, 204, 500}

\* The body of a response, by what res.json() makes of it:
\*   "html"       not JSON: res.json() throws
\*   "null"       the JSON value null: reading a property of it throws
\*   "{}"         an object without the field the step looks at
\*   "fieldnull"  an object whose field is null
\*   "fieldempty" an object whose field is the empty string
\*   "fieldok"    an object whose field has the value the step expects
\*   "[]", "[x]"  the empty array, a non-empty array
Bodies == {"html", "null", "{}", "fieldnull", "fieldempty", "fieldok", "[]", "[x]"}

Responses == [status : Statuses, body : Bodies]

\* the responses to the health request: setup() reads the status only
SetupResponses == [status : Statuses, body : {"html"}]

NoResponse == [status |-> 0, body |-> "none"]

UNDEFINED == "undefined"

NULL == "null"

Usernames == {"test_aaaaaaaaaa", "test_bbbbbbbbbb"}

\* res.json() throws on a body that is not JSON
JsonThrows(body) == body = "html"

\* reading a property of null is a TypeError
PropThrows(v) == v = "null"

\* v.<field>, for v an object or an array; expected is the value a
\* "fieldok" body carries
Prop(v, expected) ==
    CASE v = "fieldok" -> expected
      [] v = "fieldnull" -> NULL
      [] v = "fieldempty" -> ""
      [] OTHER -> UNDEFINED

\* !!v
Truthy(v) == v \notin {UNDEFINED, NULL, ""}

\* Array.isArray(v) && v.length === 0, and v.length === 0 for a non-null v
IsEmptyArray(v) == v = "[]"

\* ------------------------------------------------------------------------
\* k6 check(): every function is called in turn and its result recorded; a
\* function that throws is recorded as failed and the exception propagates
\* to the caller.  The first check of every step reads r.status only.
\* ------------------------------------------------------------------------
k6checkFirstOnly(step, names, first, secondThrows, second) ==
    [checks |-> IF secondThrows
                THEN << [step |-> step, name |-> names[1], ok |-> first] >>
                ELSE << [step |-> step, name |-> names[1], ok |-> first],
                        [step |-> step, name |-> names[2], ok |-> second] >>,
     exc |-> IF secondThrows THEN "check" ELSE "none"]

k6check(step, names, first, secondThrows, second) ==
    [checks |-> << [step |-> step, name |-> names[1], ok |-> first],
                   [step |-> step, name |-> names[2],
                    ok |-> IF secondThrows THEN FALSE ELSE second] >>,
     exc |-> IF secondThrows THEN "check" ELSE "none"]

\* the outcome of a step whose body could not be read before its checks
BodyException == [checks |-> <<>>, exc |-> "body", ret |-> FALSE, val |-> UNDEFINED]

Outcome(chk, ret, val) ==
    [checks |-> chk.checks, exc |-> chk.exc, ret |-> (chk.exc = "none" /\ ret), val |-> val]

\* ------------------------------------------------------------------------
\* The steps of the default function: what each does with its response.
\* An outcome is [checks, exc, ret, val]: the checks recorded, where an
\* exception was thrown ("none", "body", "check", "reference"), whether the
\* function returns early, and the value the step captures.
\* ------------------------------------------------------------------------
RegisterUserOutcome(scr, r, cred) ==
    IF scr = "part_000"
    THEN IF r.status = 201 /\ JsonThrows(r.body) THEN BodyException
         ELSE LET registerBody == IF r.status = 201 THEN r.body ELSE "{}"
              IN  Outcome(k6check("RegisterUser", <<"status 201", "username matches">>,
                                  r.status = 201,
                                  PropThrows(registerBody),
                                  Prop(registerBody, cred.username) = cred.username),
                          FALSE, UNDEFINED)
    ELSE Outcome(k6check("RegisterUser", <<"status 201", "username matches">>,
                         r.status = 201,
                         JsonThrows(r.body) \/ PropThrows(r.body),
                         Prop(r.body, cred.username) = cred.username),
                 FALSE, UNDEFINED)

LoginUserOutcomeNoReturn(scr, r) ==
    IF r.status = 200 /\ (JsonThrows(r.body) \/ PropThrows(r.body)) THEN BodyException
    ELSE LET accessTok == IF r.status = 200 THEN Prop(r.body, "token") ELSE ""
         IN  Outcome(k6check("LoginUser", <<"status 200", "token received">>,
                             r.status = 200, FALSE, Truthy(accessTok)),
                     FALSE, accessTok)

LoginUserOutcome(scr, r) ==
    IF r.status = 200 /\ (JsonThrows(r.body) \/ PropThrows(r.body)) THEN BodyException
    ELSE LET accessTok == IF r.status = 200 THEN Prop(r.body, "token") ELSE ""
         IN  Outcome(k6check("LoginUser", <<"status 200", "token received">>,
                             r.status = 200, FALSE, Truthy(accessTok)),
                     ~Truthy(accessTok), accessTok)

GetMyCrocodilesOutcome(scr, r) ==
    IF scr = "part_000"
    THEN IF r.status = 200 /\ JsonThrows(r.body) THEN BodyException
         ELSE LET listBody == IF r.status = 200 THEN r.body ELSE "[]"
              IN  Outcome(k6check("GetMyCrocodiles", <<"status 200", "empty list">>,
                                  r.status = 200, FALSE, IsEmptyArray(listBody)),
                          FALSE, UNDEFINED)
    ELSE Outcome(k6check("GetMyCrocodiles", <<"status 200", "empty list">>,
                         r.status = 200,
                         JsonThrows(r.body) \/ PropThrows(r.body),
                         IsEmptyArray(r.body)),
                 FALSE, UNDEFINED)

\* whether the script declares the identifier newCrocodileId
IdentifierDeclaredEverywhere(scr) == TRUE

IdentifierDeclared(scr) == scr = "part_000"

AddCrocodileOutcome(scr, r) ==
    IF scr = "part_000"
    THEN IF r.status = 201 /\ (JsonThrows(r.body) \/ PropThrows(r.body)) THEN BodyException
         ELSE LET id == IF r.status = 201 THEN Prop(r.body, "X") ELSE NULL
              IN  Outcome(k6check("AddCrocodile", <<"status 201", "id issued">>,
                                  r.status = 201, FALSE, id # NULL),
                          id = NULL, id)
    ELSE LET chk == k6check("AddCrocodile", <<"status 201", "id issued">>,
                            r.status = 201,
                            JsonThrows(r.body) \/ PropThrows(r.body),
                            Prop(r.body, "X") # NULL)
         IN  IF chk.exc = "none" /\ ~IdentifierDeclared(scr)
             THEN [checks |-> chk.checks, exc |-> "reference", ret |-> FALSE, val |-> UNDEFINED]
             ELSE Outcome(chk, FALSE, UNDEFINED)

\* the three steps that read one field of the resource and compare it
GetCrocodileOutcome(scr, r, id) ==
    IF scr = "part_000"
    THEN IF r.status = 200 /\ JsonThrows(r.body) THEN BodyException
         ELSE LET detailBody == IF r.status = 200 THEN r.body ELSE "{}"
              IN  Outcome(k6check("GetCrocodile", <<"status 200", "correct id">>,
                                  r.status = 200,
                                  PropThrows(detailBody),
                                  Prop(detailBody, "X") = id),
                          FALSE, UNDEFINED)
    ELSE Outcome(k6check("GetCrocodile", <<"status 200", "correct id">>,
                         r.status = 200,
                         JsonThrows(r.body) \/ PropThrows(r.body),
                         Prop(r.body, "X") = id),
                 FALSE, UNDEFINED)

PutCrocodileOutcome(scr, r) ==
    IF scr = "part_000"
    THEN IF r.status = 200 /\ JsonThrows(r.body) THEN BodyException
         ELSE LET putBody == IF r.status = 200 THEN r.body ELSE "{}"
              IN  Outcome(k6check("PutCrocodile", <<"status 200", "name updated">>,
                                  r.status = 200,
                                  PropThrows(putBody),
                                  Prop(putBody, "Anzhella") = "Anzhella"),
                          FALSE, UNDEFINED)
    ELSE Outcome(k6check("PutCrocodile", <<"status 200", "name updated">>,
                         r.status = 200,
                         JsonThrows(r.body) \/ PropThrows(r.body),
                         Prop(r.body, "Anzhella") = "Anzhella"),
                 FALSE, UNDEFINED)

PatchCrocodileOutcome(scr, r) ==
    IF scr = "part_000"
    THEN IF r.status = 200 /\ JsonThrows(r.body) THEN BodyException
         ELSE LET patchBody == IF r.status = 200 THEN r.body ELSE "{}"
              IN  Outcome(k6check("PatchCrocodile", <<"status 200", "gender updated">>,
                                  r.status = 200,
                                  PropThrows(patchBody),
                                  Prop(patchBody, "F") = "F"),
                          FALSE, UNDEFINED)
    ELSE Outcome(k6check("PatchCrocodile", <<"status 200", "gender updated">>,
                         r.status = 200,
                         JsonThrows(r.body) \/ PropThrows(r.body),
                         Prop(r.body, "F") = "F"),
                 FALSE, UNDEFINED)

DeleteCrocodileOutcome(scr, r) ==
    [checks |-> << [step |-> "DeleteCrocodile", name |-> "status 204/200",
                    ok |-> (r.status = 204 \/ r.status = 200)] >>,
     exc |-> "none", ret |-> FALSE, val |-> UNDEFINED]

\* ------------------------------------------------------------------------
\* State
\* ------------------------------------------------------------------------
VARIABLES
    env,              \* __ENV.DURATION, <<>> when unset
    optPc,            \* position in the init-context code
    durationSeconds,  \* const durationSeconds
    rampSeconds,      \* const rampSeconds
    stages,           \* options.stages
    script,           \* the variant that runs
    runState,         \* "init", "setup", "running", "aborted"
    health,           \* number of health requests issued by setup()
    setupRes,         \* const res of setup()
    iteration,        \* number of iterations started
    pc,               \* the step the iteration is at; "idle", "done"
    inflight,         \* TRUE while the request of step pc awaits its response
    userCredentials,  \* const userCredentials
    requests,         \* the requests issued by the current iteration
    received,         \* number of responses the current iteration received
    res,              \* let res
    response,         \* const response (login)
    accessToken,      \* let accessToken
    newCrocodileId,   \* let newCrocodileId
    checks,           \* the checks recorded by the current iteration
    exc,              \* where the iteration threw: "none", "body", "check", "reference"
    outcome           \* "none", "running", "completed", "returned", "exception"

optVars == <<env, optPc, durationSeconds, rampSeconds, stages>>

runVars == <<script, runState, health, setupRes, iteration, pc, inflight, userCredentials,
             requests, received, res, response, accessToken, newCrocodileId, checks,
             exc, outcome>>

iterVars == <<pc, inflight, userCredentials, requests, received, res, response,
              accessToken, newCrocodileId, checks, exc, outcome>>

vars == <<env, optPc, durationSeconds, rampSeconds, stages, script, runState, health,
          setupRes, iteration, pc, inflight, userCredentials, requests, received, res,
          response, accessToken, newCrocodileId, checks, exc, outcome>>

NotSet == "notset"

StepOrder == << "RegisterUser", "LoginUser", "GetMyCrocodiles", "AddCrocodile",
                "GetCrocodile", "PutCrocodile", "PatchCrocodile", "DeleteCrocodile" >>

StepIndex(step) == CHOOSE i \in 1..Len(StepOrder) : StepOrder[i] = step

\* the step whose request follows the one of step in the default function
NextStepReordered(step) ==
    CASE step = "LoginUser" -> "AddCrocodile"
      [] step = "AddCrocodile" -> "GetMyCrocodiles"
      [] step = "GetMyCrocodiles" -> "GetCrocodile"
      [] OTHER -> StepOrder[StepIndex(step) + 1]

NextStep(step) == StepOrder[StepIndex(step) + 1]

\* exec.test.abort() is called by setup()
SetupAbortsNever(r) == FALSE

SetupAborts(r) == r.status # 200

InitRun ==
    /\ script \in Scripts
    /\ runState = "init"
    /\ health = 0
    /\ setupRes = NoResponse
    /\ iteration = 0
    /\ pc = "idle"
    /\ inflight = FALSE
    /\ userCredentials = [username |-> NotSet, password |-> NotSet]
    /\ requests = <<>>
    /\ received = 0
    /\ res = NoResponse
    /\ response = NoResponse
    /\ accessToken = NotSet
    /\ newCrocodileId = NotSet
    /\ checks = <<>>
    /\ exc = "none"
    /\ outcome = "none"

\* ------------------------------------------------------------------------
\* Init context: the constants and options of the module top level
\* ------------------------------------------------------------------------
InitOptions ==
    /\ env \in EnvStrings
    /\ optPc = "start"
    /\ durationSeconds = NaN
    /\ rampSeconds = 0
    /\ stages = <<>>
    /\ InitRun

ResolveDuration ==
    /\ optPc = "start"
    /\ durationSeconds' = resolveDurationSeconds(DurationSetting(env))
    /\ optPc' = "duration"
    /\ UNCHANGED <<env, rampSeconds, stages>>
    /\ UNCHANGED runVars

BuildOptions ==
    /\ optPc = "duration"
    /\ rampSeconds' = RampSeconds(durationSeconds)
    /\ stages' = Stages(RampSeconds(durationSeconds), durationSeconds)
    /\ optPc' = "options"
    /\ UNCHANGED <<env, durationSeconds>>
    /\ UNCHANGED runVars

NextOptions == ResolveDuration \/ BuildOptions

SpecOptions == InitOptions /\ [][NextOptions]_vars

\* ------------------------------------------------------------------------
\* The run of one virtual user, with the default DURATION
\* ------------------------------------------------------------------------
Init ==
    /\ env = <<>>
    /\ optPc = "options"
    /\ durationSeconds = resolveDurationSeconds(DurationSetting(<<>>))
    /\ rampSeconds = RampSeconds(resolveDurationSeconds(DurationSetting(<<>>)))
    /\ stages = Stages(RampSeconds(resolveDurationSeconds(DurationSetting(<<>>))),
                       resolveDurationSeconds(DurationSetting(<<>>)))
    /\ InitRun

SetupRequest ==
    /\ runState = "init"
    /\ health' = health + 1
    /\ runState' = "setup"
    /\ UNCHANGED <<script, setupRes, iteration>>
    /\ UNCHANGED iterVars
    /\ UNCHANGED optVars

SetupResponse ==
    /\ runState = "setup"
    /\ \E r \in SetupResponses :
        /\ setupRes' = r
        /\ runState' = IF SetupAborts(r) THEN "aborted" ELSE "running"
    /\ UNCHANGED <<script, health, iteration>>
    /\ UNCHANGED iterVars
    /\ UNCHANGED optVars

StartIteration ==
    /\ runState = "running"
    /\ pc \in {"idle", "done"}
    /\ iteration < MaxIterations
    /\ iteration' = iteration + 1
    /\ \E u \in Usernames :
        userCredentials' = [username |-> u, password |-> "secret"]
    /\ pc' = "RegisterUser"
    /\ inflight' = FALSE
    /\ requests' = <<>>
    /\ received' = 0
    /\ res' = NoResponse
    /\ response' = NoResponse
    /\ accessToken' = NotSet
    /\ newCrocodileId' = NotSet
    /\ checks' = <<>>
    /\ exc' = "none"
    /\ outcome' = "running"
    /\ UNCHANGED <<script, runState, health, setupRes>>
    /\ UNCHANGED optVars

Crocodiles(id) == <<"/my/crocodiles/", id, "/">>

\* the request of a step: method, path and bearer token ("" without one)
Request(step, token, id) ==
    CASE step = "RegisterUser" ->
            [step |-> step, method |-> "POST", url |-> <<"/user/register/">>, auth |-> ""]
      [] step = "LoginUser" ->
            [step |-> step, method |-> "POST", url |-> <<"/auth/token/login/">>, auth |-> ""]
      [] step = "GetMyCrocodiles" ->
            [step |-> step, method |-> "GET", url |-> <<"/my/crocodiles/">>, auth |-> token]
      [] step = "AddCrocodile" ->
            [step |-> step, method |-> "POST", url |-> <<"/my/crocodiles/">>, auth |-> token]
      [] step = "GetCrocodile" ->
            [step |-> step, method |-> "GET", url |-> Crocodiles(id), auth |-> token]
      [] step = "PutCrocodile" ->
            [step |-> step, method |-> "PUT", url |-> Crocodiles(id), auth |-> token]
      [] step = "PatchCrocodile" ->
            [step |-> step, method |-> "PATCH", url |-> Crocodiles(id), auth |-> token]
      [] step = "DeleteCrocodile" ->
            [step |-> step, method |-> "DELETE", url |-> Crocodiles(id), auth |-> token]

\* http.<method>(...) is called: the request leaves and the call blocks
Send(step) ==
    /\ runState = "running"
    /\ pc = step
    /\ ~inflight
    /\ requests' = Append(requests, Request(step, accessToken, newCrocodileId))
    /\ inflight' = TRUE
    /\ UNCHANGED <<script, runState, health, setupRes, iteration, pc, userCredentials,
                   received, res, response, accessToken, newCrocodileId, checks, exc,
                   outcome>>
    /\ UNCHANGED optVars

\* the code between the response of step and the next request, given the
\* outcome o of the step: an exception or an early return ends the
\* iteration, sleep() passes otherwise
Continue(step, o) ==
    /\ inflight' = FALSE
    /\ received' = received + 1
    /\ checks' = checks \o o.checks
    /\ exc' = o.exc
    /\ IF o.exc # "none" THEN pc' = "done" /\ outcome' = "exception"
       ELSE IF o.ret THEN pc' = "done" /\ outcome' = "returned"
       ELSE IF step = "DeleteCrocodile" THEN pc' = "done" /\ outcome' = "completed"
       ELSE pc' = NextStep(step) /\ outcome' = outcome
    /\ UNCHANGED <<script, runState, health, setupRes, iteration, userCredentials, requests>>
    /\ UNCHANGED optVars

Receiving(step) == runState = "running" /\ pc = step /\ inflight

RegisterUser == Send("RegisterUser")

RegisterUserResponse ==
    /\ Receiving("RegisterUser")
    /\ \E r \in Responses :
        /\ res' = r
        /\ Continue("RegisterUser", RegisterUserOutcome(script, r, userCredentials))
    /\ UNCHANGED <<response, accessToken, newCrocodileId>>

LoginUser == Send("LoginUser")

LoginUserResponse ==
    /\ Receiving("LoginUser")
    /\ \E r \in Responses :
        LET o == LoginUserOutcome(script, r)
        IN  /\ response' = r
            /\ accessToken' = IF o.exc = "none" THEN o.val ELSE ""
            /\ Continue("LoginUser", o)
    /\ UNCHANGED <<res, newCrocodileId>>

GetMyCrocodiles == Send("GetMyCrocodiles")

GetMyCrocodilesResponse ==
    /\ Receiving("GetMyCrocodiles")
    /\ \E r \in Responses :
        /\ res' = r
        /\ Continue("GetMyCrocodiles", GetMyCrocodilesOutcome(script, r))
    /\ UNCHANGED <<response, accessToken, newCrocodileId>>

AddCrocodile == Send("AddCrocodile")

AddCrocodileResponse ==
    /\ Receiving("AddCrocodile")
    /\ \E r \in Responses :
        LET o == AddCrocodileOutcome(script, r)
        IN  /\ res' = r
            /\ newCrocodileId' = IF ~IdentifierDeclared(script) THEN NotSet
                                 ELSE IF o.exc = "none" THEN o.val
                                 ELSE IF script = "part_000" THEN NULL ELSE UNDEFINED
            /\ Continue("AddCrocodile", o)
    /\ UNCHANGED <<response, accessToken>>

GetCrocodile == Send("GetCrocodile")

GetCrocodileResponse ==
    /\ Receiving("GetCrocodile")
    /\ \E r \in Responses :
        /\ res' = r
        /\ Continue("GetCrocodile", GetCrocodileOutcome(script, r, newCrocodileId))
    /\ UNCHANGED <<response, accessToken, newCrocodileId>>

PutCrocodile == Send("PutCrocodile")

PutCrocodileResponse ==
    /\ Receiving("PutCrocodile")
    /\ \E r \in Responses :
        /\ res' = r
        /\ Continue("PutCrocodile", PutCrocodileOutcome(script, r))
    /\ UNCHANGED <<response, accessToken, newCrocodileId>>

PatchCrocodile == Send("PatchCrocodile")

PatchCrocodileResponse ==
    /\ Receiving("PatchCrocodile")
    /\ \E r \in Responses :
        /\ res' = r
        /\ Continue("PatchCrocodile", PatchCrocodileOutcome(script, r))
    /\ UNCHANGED <<response, accessToken, newCrocodileId>>

DeleteCrocodile == Send("DeleteCrocodile")

DeleteCrocodileResponse ==
    /\ Receiving("DeleteCrocodile")
    /\ \E r \in Responses :
        /\ res' = r
        /\ Continue("DeleteCrocodile", DeleteCrocodileOutcome(script, r))
    /\ UNCHANGED <<response, accessToken, newCrocodileId>>

Next ==
    \/ SetupRequest
    \/ SetupResponse
    \/ StartIteration
    \/ RegisterUser
    \/ RegisterUserResponse
    \/ LoginUser
    \/ LoginUserResponse
    \/ GetMyCrocodiles
    \/ GetMyCrocodilesResponse
    \/ AddCrocodile
    \/ AddCrocodileResponse
    \/ GetCrocodile
    \/ GetCrocodileResponse
    \/ PutCrocodile
    \/ PutCrocodileResponse
    \/ PatchCrocodile
    \/ PatchCrocodileResponse
    \/ DeleteCrocodile
    \/ DeleteCrocodileResponse

Spec == Init /\ [][Next]_vars

\* ------------------------------------------------------------------------
\* Properties
\* ------------------------------------------------------------------------
ChecksOf(step) == Cardinality({i \in DOMAIN checks : checks[i].step = step})

CheckFailed(step, name) ==
    \E i \in DOMAIN checks : checks[i].step = step /\ checks[i].name = name /\ ~checks[i].ok

StatusCheckNames == {"status 200", "status 201", "status 204/200"}

\* a login response that carries a non-empty access token
YieldsToken(r) == r.status = 200 /\ r.body = "fieldok"

\* a login response of the cases the spec names: another status, or a 200
\* body that is an object or array without a non-empty access field
NoTokenCase(r) ==
    r # NoResponse /\ (r.status # 200 \/ r.body \in {"{}", "fieldnull", "fieldempty", "[]", "[x]"})

\* C1: when the login response does not yield a non-empty access token the
\* iteration is over with register and login as its only requests; when the
\* status is not 200 or the access field is missing or empty, the two login
\* checks are recorded, "token received" as failed, and the function returns.
C1_NoTokenEndsIteration ==
    (response # NoResponse /\ ~YieldsToken(response)) =>
        /\ pc = "done"
        /\ Len(requests) = 2
        /\ requests[2].step = "LoginUser"
        /\ NoTokenCase(response) =>
              /\ outcome = "returned"
              /\ ChecksOf("LoginUser") = 2
              /\ CheckFailed("LoginUser", "token received")

C1_Witness ==
    /\ response.status = 200
    /\ response.body = "{}"
    /\ outcome = "returned"
    /\ Len(requests) = 2

\* a create response of the cases the spec names: a status other than 201,
\* or a 201 body whose id is null or missing
NoIdCase(r) == r.status # 201 \/ r.body \in {"{}", "fieldnull", "[]", "[x]"}

AfterResponse(k) == received = k /\ Len(requests) = k

\* C2 (as stated, for src/unnamed/part_000): when the create response does
\* not carry an assigned identifier, "id issued" is recorded as failed and
\* the iteration ends right after the create checks.
C2_NoIdEndsIteration ==
    (script = "part_000" /\ AfterResponse(4) /\ NoIdCase(res)) =>
        /\ pc = "done"
        /\ CheckFailed("AddCrocodile", "id issued")

\* C3: setup() issues the health request at most once, every iteration
\* starts after a health response of status 200, and after a health response
\* of another status the run is aborted: no iteration starts and no request
\* is issued.
C3_HealthOnceAbortOnFailure ==
    /\ health <= 1
    /\ (iteration > 0 \/ requests # <<>>) => (health = 1 /\ setupRes.status = 200)
    /\ (setupRes # NoResponse /\ setupRes.status # 200) =>
          (runState = "aborted" /\ iteration = 0 /\ requests = <<>> /\ pc = "idle")

C3_Witness == runState = "aborted" /\ health = 1 /\ setupRes.status = 500

\* C4: in one iteration the requests issued are a prefix of register, login,
\* list, create, read, put, patch, delete (each at most once, in that order),
\* and a request is issued only when every earlier request has its response.
C4_OnceEachInOrder ==
    /\ Len(requests) <= Len(StepOrder)
    /\ \A i \in 1..Len(requests) : requests[i].step = StepOrder[i]
    /\ Len(requests) \in {received, received + 1}

C4_Witness ==
    /\ outcome = "completed"
    /\ Len(requests) = 8
    /\ received = 8
    /\ \E i \in DOMAIN checks : ~checks[i].ok

\* C5 (as stated, for src/unnamed/part_000): after the response of the
\* register, list, read, put and patch steps the next request follows,
\* whatever the response; an iteration ends early only on an absent token
\* after login or an absent id after create.
C5_FailedCheckNeverInterrupts ==
    script = "part_000" =>
        /\ \A k \in {1, 3, 5, 6, 7} : AfterResponse(k) => pc = StepOrder[k + 1]
        /\ (pc = "done" /\ outcome # "completed") =>
              \/ (AfterResponse(2) /\ ~YieldsToken(response))
              \/ (AfterResponse(4) /\ ~(res.status = 201 /\ res.body \in {"fieldok", "fieldempty"}))

\* the seconds the documented formats give: <n> and <n>s are n, <n>m is
\* 60*n, <n>h is 3600*n, anything else is 60
DocumentedSeconds(value) ==
    LET t == trim(value)
        n == Len(t)
        last == IF n = 0 THEN "" ELSE toLowerCase(t[n])
        front == IF n = 0 THEN <<>> ELSE SubSeq(t, 1, n - 1)
    IN  IF n >= 1 /\ AllDigits(t) THEN DigitsValue(t, 10)
        ELSE IF n >= 2 /\ AllDigits(front) /\ last = "s" THEN DigitsValue(front, 10)
        ELSE IF n >= 2 /\ AllDigits(front) /\ last = "m" THEN 60 * DigitsValue(front, 10)
        ELSE IF n >= 2 /\ AllDigits(front) /\ last = "h" THEN 3600 * DigitsValue(front, 10)
        ELSE 60

\* C6 (as stated): resolveDurationSeconds gives the seconds of the four
\* documented formats and 60 for every other input.
C6_DurationFormatsOrSixty ==
    optPc # "start" => durationSeconds = Int2Num(DocumentedSeconds(DurationSetting(env)))

\* C7: the ramp is the integer nearest to a tenth of the steady duration, a
\* half going up, and 1 when that is below 1; it is at least 1, it is the
\* duration of the first and of the third stage, and it differs from the
\* rounded tenth only for durations below 10 seconds.
C7_RampDerivation ==
    optPc = "options" =>
        LET d == durationSeconds
            nearest == /\ (10 * rampSeconds - 5) * d.den <= d.num
                       /\ d.num < (10 * rampSeconds + 5) * d.den
        IN  /\ rampSeconds >= 1
            /\ IF d.num < 5 * d.den THEN rampSeconds = 1 ELSE nearest
            /\ d.num >= 10 * d.den => nearest
            /\ Len(stages) = 3
            /\ stages[1].duration = Int2Num(rampSeconds)
            /\ stages[2].duration = d
            /\ stages[3].duration = Int2Num(rampSeconds)

C7_Witness ==
    /\ optPc = "options"
    /\ durationSeconds = Int2Num(65)
    /\ rampSeconds = 7
    /\ stages[1].duration = Int2Num(7)
    /\ stages[3].duration = Int2Num(7)

C9_CreatedResourceIsDeleted ==
    (script = "part_000" /\ pc = "done" /\ newCrocodileId = "X") =>
        /\ requests[Len(requests)].method = "DELETE"
        /\ requests[Len(requests)].url = Crocodiles("X")

====
